---- MODULE Spec2Model ----
(***************************************************************************)
(* Key Management System: the master key store (master_key_manager.js),    *)
(* the key vault (master-key-server/index.js), the key server              *)
(* (key-server/index.js), the auth service (auth/index.js), the rotation   *)
(* script (master-key-server/rotate-mk.js) and the document cipher         *)
(* (scripts/secure-document-manager.js).                                   *)
(*                                                                         *)
(* Buffers of plaintext are sequences of bytes.  The output of node's      *)
(* AES is symbolic: a ciphertext records the key, the IV and the padded    *)
(* plaintext it was made from, together with the bits flipped in it since. *)
(* Decryption follows CBC: under the right key a flipped bit of cipher     *)
(* block j garbles plain block j and flips the same bit of plain block     *)
(* j+1; under a wrong key every block is garbage.  Garbage is a choice     *)
(* among GarbageBlocks, so decryption yields a set of possible outcomes.   *)
(***************************************************************************)
EXTENDS Naturals, Sequences, FiniteSets

(* ------------------------------ bounds -------------------------------- *)

\* master key records ever inserted
MaxKeys == 3
\* largest value of the clock (Date.now())
MaxClock == 2
\* runs of the rotation script
MaxRuns == 2

(* ------------------------- program constants --------------------------- *)

\* AES block size: the 16 of pkcs7Pad, the 16-byte IV and slice(0, 16)
BlockSize == 16
\* length of a DEK and of a master key: crypto.randomBytes(32)
KeyLen == 32
\* CONFIG.IV_LENGTH and CONFIG.TAG_LENGTH of the document manager
IV_LENGTH == 16
TAG_LENGTH == 16

(* ------------------------------ bytes --------------------------------- *)

Bit(x, i) == (x \div (2 ^ i)) % 2

\* bitwise exclusive or of two bytes
Xor8(a, b) ==
    IF b = 0 THEN a
    ELSE ((Bit(a, 0) + Bit(b, 0)) % 2)
       + ((Bit(a, 1) + Bit(b, 1)) % 2) * 2
       + ((Bit(a, 2) + Bit(b, 2)) % 2) * 4
       + ((Bit(a, 3) + Bit(b, 3)) % 2) * 8
       + ((Bit(a, 4) + Bit(b, 4)) % 2) * 16
       + ((Bit(a, 5) + Bit(b, 5)) % 2) * 32
       + ((Bit(a, 6) + Bit(b, 6)) % 2) * 64
       + ((Bit(a, 7) + Bit(b, 7)) % 2) * 128

\* Buffer.alloc(n, v)
Fill(n, v) == [i \in 1..n |-> v]

\* buf.slice(0, n) and buf.slice(n) of a byte sequence
Take(s, n) == IF n >= Len(s) THEN s ELSE SubSeq(s, 1, n)
Drop(s, n) == IF n >= Len(s) THEN <<>> ELSE SubSeq(s, n + 1, Len(s))

(* ------------------- node crypto: AES-256-CBC/GCM ---------------------- *)

\* the padding OpenSSL adds itself (auto padding is on by default)
OsslPad(data) == data \o Fill(BlockSize - (Len(data) % BlockSize), BlockSize - (Len(data) % BlockSize))

Fail == [ok |-> FALSE, data |-> <<>>]
Ok(data) == [ok |-> TRUE, data |-> data]

\* decipher.final(): checks and strips OpenSSL's padding ("bad decrypt")
OsslUnpad(p) ==
    LET n == IF Len(p) = 0 THEN 0 ELSE p[Len(p)]
    IN  IF /\ n >= 1 /\ n <= BlockSize /\ n <= Len(p)
           /\ \A i \in (Len(p) - n + 1)..Len(p) : p[i] = n
        THEN Ok(Take(p, Len(p) - n))
        ELSE Fail

\* a block deciphered under a wrong key, or from a tampered cipher block:
\* one with valid padding of a whole block, one with invalid padding, one
\* with valid padding of one byte after a zero byte
GarbageBlocks == { Fill(BlockSize, BlockSize), Fill(BlockSize, 170), Fill(BlockSize - 1, 0) \o <<1>> }

\* a buffer that is not the output of a cipher
Raw(bytes) == [kind |-> "raw", raw |-> bytes, key |-> <<>>, iv |-> <<>>, pt |-> <<>>, flips |-> {}]

\* Buffer.concat([iv, cipher.update(data), cipher.final()]) for aes-256-cbc
CbcBlob(key, iv, data) ==
    [kind |-> "cbc", raw |-> <<>>, key |-> key, iv |-> iv, pt |-> OsslPad(data), flips |-> {}]

\* Buffer.concat([iv, authTag, encrypted]) for aes-256-gcm
GcmBlob(key, iv, data) ==
    [kind |-> "gcm", raw |-> <<>>, key |-> key, iv |-> iv, pt |-> data, flips |-> {}]

\* length in bytes of a buffer
BufLen(buf) ==
    CASE buf.kind = "raw" -> Len(buf.raw)
      [] buf.kind = "cbc" -> BlockSize + Len(buf.pt)
      [] buf.kind = "gcm" -> IV_LENGTH + TAG_LENGTH + Len(buf.pt)

\* the xor mask the flipped bits put on byte pos of the buffer
FlipMask(flips, pos) ==
    LET bits == { f[2] : f \in { g \in flips : g[1] = pos } }
        w(b) == IF b \in bits THEN 2 ^ b ELSE 0
    IN  w(0) + w(1) + w(2) + w(3) + w(4) + w(5) + w(6) + w(7)

\* buf.slice(0, 16): the IV as stored
SliceIv(buf) ==
    IF buf.kind = "raw" THEN Take(buf.raw, BlockSize)
    ELSE [i \in 1..BlockSize |-> Xor8(buf.iv[i], FlipMask(buf.flips, i))]

\* createDecipheriv('aes-256-cbc', key, iv) on buf.slice(16): the set of
\* possible results of Buffer.concat([decipher.update(ct), decipher.final()])
CbcDecrypt(key, ivUsed, buf) ==
    LET n == BufLen(buf) - BlockSize
        blk(i) == ((i - 1) \div BlockSize) + 1
        off(i) == ((i - 1) % BlockSize) + 1
        \* cipher block j of the buffer holds bytes j*16+1 .. j*16+16
        hit(j) == \E f \in buf.flips : f[1] > j * BlockSize /\ f[1] <= (j + 1) * BlockSize
        delta(i) == IF blk(i) = 1 THEN Xor8(ivUsed[off(i)], buf.iv[off(i)])
                    ELSE FlipMask(buf.flips, (blk(i) - 1) * BlockSize + off(i))
        plain(g) == [i \in 1..n |-> IF hit(blk(i)) THEN g[off(i)] ELSE Xor8(buf.pt[i], delta(i))]
    IN  IF Len(key) # KeyLen \/ Len(ivUsed) # BlockSize \/ buf.kind = "gcm" THEN {Fail}
        ELSE IF buf.kind = "raw"
             THEN IF Len(buf.raw) <= BlockSize \/ Len(buf.raw) % BlockSize # 0 THEN {Fail}
                  ELSE { OsslUnpad([i \in 1..(Len(buf.raw) - BlockSize) |-> g[off(i)]]) : g \in GarbageBlocks }
        ELSE IF key # buf.key
             THEN { OsslUnpad([i \in 1..n |-> g[off(i)]]) : g \in GarbageBlocks }
        ELSE { OsslUnpad(plain(g)) : g \in GarbageBlocks }

\* createDecipheriv('aes-256-gcm', key, iv), setAuthTag, update, final
GcmDecrypt(key, ivUsed, buf) ==
    IF /\ buf.kind = "gcm" /\ key = buf.key /\ buf.flips = {} /\ ivUsed = buf.iv
    THEN Ok(buf.pt)
    ELSE Fail

(* ----------------------------- encodings ------------------------------ *)

\* buf.toString('base64') and Buffer.from(text, 'base64'): a base64 text
\* is held as the buffer it encodes under the tag of its encoding
B64Encode(buf) == [b64 |-> buf]
B64Decode(text) == text.b64

\* buf.toString('hex'): two hex digits (0..15) per byte
HexEncode(bytes) == [i \in 1..(2 * Len(bytes)) |-> IF i % 2 = 1 THEN bytes[(i + 1) \div 2] \div 16 ELSE bytes[i \div 2] % 16]

\* Buffer.from(text, 'hex'): stops at the first pair that is not two hex
\* digits (a digit above 15 stands for any other character); a trailing
\* single digit is dropped
HexDecode(text) ==
    LET pairs == Len(text) \div 2
        bad == { i \in 1..pairs : text[2 * i - 1] > 15 \/ text[2 * i] > 15 }
        n == IF bad = {} THEN pairs ELSE (CHOOSE i \in bad : \A j \in bad : i <= j) - 1
    IN  [i \in 1..n |-> text[2 * i - 1] * 16 + text[2 * i]]

\* a JavaScript string is the sequence of its code points; a lone surrogate
\* is a code point of 55296..57343
Replacement == 65533

\* Buffer.from(str, 'utf8'): a lone surrogate is written as U+FFFD
RECURSIVE Utf8Encode(_)
Utf8Encode(str) ==
    IF str = <<>> THEN <<>>
    ELSE LET c == IF str[1] >= 55296 /\ str[1] <= 57343 THEN Replacement ELSE str[1]
             head == IF c < 128 THEN <<c>>
                     ELSE IF c < 2048 THEN <<192 + (c \div 64), 128 + (c % 64)>>
                     ELSE IF c < 65536 THEN <<224 + (c \div 4096), 128 + ((c \div 64) % 64), 128 + (c % 64)>>
                     ELSE <<240 + (c \div 262144), 128 + ((c \div 4096) % 64),
                            128 + ((c \div 64) % 64), 128 + (c % 64)>>
         IN  head \o Utf8Encode(Tail(str))

\* buf.toString('utf8'): every maximal ill-formed run of bytes is read as
\* U+FFFD
RECURSIVE Utf8Decode(_)
Utf8Decode(bytes) ==
    IF bytes = <<>> THEN <<>>
    ELSE LET b == bytes[1]
             n == Len(bytes)
             cont(i) == i <= n /\ bytes[i] >= 128 /\ bytes[i] <= 191
             \* the range of the second byte after lead byte b
             lo == IF b = 224 THEN 160 ELSE IF b = 240 THEN 144 ELSE 128
             hi == IF b = 237 THEN 159 ELSE IF b = 244 THEN 143 ELSE 191
             second == n >= 2 /\ bytes[2] >= lo /\ bytes[2] <= hi
             need == IF b < 128 THEN 1
                     ELSE IF b >= 194 /\ b <= 223 THEN 2
                     ELSE IF b >= 224 /\ b <= 239 THEN 3
                     ELSE IF b >= 240 /\ b <= 244 THEN 4
                     ELSE 0
             \* the bytes of the sequence that are well-formed so far
             got == IF need <= 1 THEN 1
                    ELSE IF ~second THEN 1
                    ELSE IF need = 2 \/ ~cont(3) THEN 2
                    ELSE IF need = 3 \/ ~cont(4) THEN 3
                    ELSE 4
             cp == IF need = 1 THEN b
                   ELSE IF need = 2 THEN (b - 192) * 64 + (bytes[2] - 128)
                   ELSE IF need = 3 THEN (b - 224) * 4096 + (bytes[2] - 128) * 64 + (bytes[3] - 128)
                   ELSE (b - 240) * 262144 + (bytes[2] - 128) * 4096 + (bytes[3] - 128) * 64 + (bytes[4] - 128)
         IN  IF need >= 1 /\ got = need
             THEN <<cp>> \o Utf8Decode(Drop(bytes, need))
             ELSE <<Replacement>> \o Utf8Decode(Drop(bytes, got))

\* JavaScript values that are documents: a string, or an object with one
\* property whose value is a string
JsStr(s) == [t |-> "string", k |-> <<>>, s |-> s]
JsObj(k, s) == [t |-> "object", k |-> k, s |-> s]

\* JSON's quoted form of a string: '"' and '\' and the newline are escaped
RECURSIVE JsonQuoteChars(_)
JsonQuoteChars(s) ==
    IF s = <<>> THEN <<>>
    ELSE (IF s[1] = 34 THEN <<92, 34>>
          ELSE IF s[1] = 92 THEN <<92, 92>>
          ELSE IF s[1] = 10 THEN <<92, 110>>
          ELSE <<s[1]>>) \o JsonQuoteChars(Tail(s))

JsonQuote(s) == <<34>> \o JsonQuoteChars(s) \o <<34>>

\* JSON.stringify(value)
JsonStringify(value) ==
    IF value.t = "string" THEN JsonQuote(value.s)
    ELSE <<123>> \o JsonQuote(value.k) \o <<58>> \o JsonQuote(value.s) \o <<125>>

\* the string literal of text whose opening quote is at i - 1: its value
\* and the position after its closing quote; ok = FALSE for a SyntaxError
RECURSIVE JsonScanString(_, _, _)
JsonScanString(text, i, acc) ==
    IF i > Len(text) \/ text[i] < 32 THEN [ok |-> FALSE, s |-> <<>>, next |-> i]
    ELSE IF text[i] = 34 THEN [ok |-> TRUE, s |-> acc, next |-> i + 1]
    ELSE IF text[i] = 92
         THEN IF i + 1 > Len(text) THEN [ok |-> FALSE, s |-> <<>>, next |-> i]
              ELSE IF text[i + 1] \in {34, 92} THEN JsonScanString(text, i + 2, Append(acc, text[i + 1]))
              ELSE IF text[i + 1] = 110 THEN JsonScanString(text, i + 2, Append(acc, 10))
              ELSE [ok |-> FALSE, s |-> <<>>, next |-> i]
    ELSE JsonScanString(text, i + 1, Append(acc, text[i]))

\* JSON.parse(text) for the texts of documents; ok = FALSE for a SyntaxError
JsonParse(text) ==
    LET bad == [ok |-> FALSE, value |-> JsStr(<<>>)]
        at(i) == IF i <= Len(text) THEN text[i] ELSE 0
        str == JsonScanString(text, 2, <<>>)
        key == JsonScanString(text, 3, <<>>)
        val == JsonScanString(text, key.next + 2, <<>>)
    IN  IF at(1) = 34
        THEN IF str.ok /\ str.next = Len(text) + 1 THEN [ok |-> TRUE, value |-> JsStr(str.s)] ELSE bad
        ELSE IF at(1) = 123 /\ at(2) = 34
        THEN IF /\ key.ok /\ at(key.next) = 58 /\ at(key.next + 1) = 34
                /\ val.ok /\ at(val.next) = 125 /\ val.next = Len(text)
             THEN [ok |-> TRUE, value |-> JsObj(key.s, val.s)]
             ELSE bad
        ELSE bad

(* ------------------ master_key_manager.js (part_003) ------------------- *)

\* ROOT_KEY = sha256(PLAIN_ROOT_KEY): 32 fixed bytes
ROOT_KEY == Fill(KeyLen, 82)

\* crypto.randomBytes(16)
IVs == { Fill(BlockSize, 0) }

\* crypto.randomBytes(32) of the n-th add call: fresh key material
KeyMaterial(n) == Fill(KeyLen, 100 + n)

\* a JavaScript value that is a Buffer, and one that is a string (its
\* characters held as their UTF-8 bytes)
JsBuffer(bytes) == [type |-> "Buffer", bytes |-> bytes]
JsString(bytes) == [type |-> "string", bytes |-> bytes]

\* encryptKey(keyBuf): base64(iv || AES-CBC(ROOT_KEY, iv, keyBuf))
encryptKey(keyBuf, iv) == B64Encode(CbcBlob(ROOT_KEY, iv, keyBuf))

\* decryptKey(encryptedB64): the possible results; a failed decipher throws
decryptKey(encryptedB64) ==
    LET buf == B64Decode(encryptedB64)
    IN  CbcDecrypt(ROOT_KEY, SliceIv(buf), buf)

\* INSERT INTO master_keys (key_id, key_material, created_at, status)
\* VALUES (?, ?, ?, 'active'); key_id is UNIQUE
InsertMasterKey(table, keyId, encrypted, now) ==
    IF \E i \in 1..Len(table) : table[i].key_id = keyId
    THEN [ok |-> FALSE, table |-> table]
    ELSE [ok |-> TRUE,
          table |-> Append(table, [key_id |-> keyId, key_material |-> encrypted,
                                   created_at |-> now, status |-> "active"])]

\* RetireOthers with the comparison of the WHERE clause turned round
\* (key_id = ?): the new record is retired, the others stay
RetireOthers_SameKey(table, keyId) ==
    [i \in 1..Len(table) |->
        IF table[i].key_id = keyId /\ table[i].status = "active"
        THEN [table[i] EXCEPT !.status = "retired"]
        ELSE table[i]]

\* RetireOthers with the status of every other record switched (SET status
\* = IF(status = 'active', 'retired', 'active') WHERE key_id != ?): a
\* retired record becomes active again
RetireOthers_Toggle(table, keyId) ==
    [i \in 1..Len(table) |->
        IF table[i].key_id # keyId
        THEN [table[i] EXCEPT !.status = IF @ = "active" THEN "retired" ELSE "active"]
        ELSE table[i]]

\* UPDATE master_keys SET status = 'retired' WHERE key_id != ? AND status = 'active'
RetireOthers(table, keyId) ==
    [i \in 1..Len(table) |->
        IF table[i].key_id # keyId /\ table[i].status = "active"
        THEN [table[i] EXCEPT !.status = "retired"]
        ELSE table[i]]

\* ActiveRows without its WHERE and ORDER BY clauses (SELECT ... LIMIT 1):
\* the first row of the table
ActiveRows_FirstRow(table) == IF Len(table) = 0 THEN {} ELSE {1}

\* SELECT key_id, key_material FROM master_keys WHERE status = 'active'
\* ORDER BY created_at DESC LIMIT 1: the rows the query may return (rows of
\* equal created_at come in either order)
ActiveRows(table) ==
    { i \in 1..Len(table) :
        /\ table[i].status = "active"
        /\ \A j \in 1..Len(table) : table[j].status = "active" => table[j].created_at <= table[i].created_at }

\* getActiveMasterKey falling back, when no record is active, to the record
\* inserted last
getActiveMasterKey_Fallback(table) ==
    IF Len(table) = 0 THEN { [ok |-> FALSE, keyId |-> 0, keyMaterial |-> JsBuffer(<<>>)] }
    ELSE LET rows == IF ActiveRows(table) = {} THEN {Len(table)} ELSE ActiveRows(table)
         IN  UNION { { [ok |-> d.ok, keyId |-> table[i].key_id, keyMaterial |-> JsBuffer(d.data)] :
                         d \in decryptKey(table[i].key_material) } : i \in rows }

\* getActiveMasterKey(): the possible outcomes, each {keyId, keyMaterial}
\* with keyMaterial a Buffer, or a throw ('No active master key')
getActiveMasterKey(table) ==
    IF ActiveRows(table) = {} THEN { [ok |-> FALSE, keyId |-> 0, keyMaterial |-> JsBuffer(<<>>)] }
    ELSE UNION { { [ok |-> d.ok, keyId |-> table[i].key_id, keyMaterial |-> JsBuffer(d.data)] :
                     d \in decryptKey(table[i].key_material) } : i \in ActiveRows(table) }

\* SELECT key_id, key_material FROM master_keys WHERE status = 'retired'
\* (no ORDER BY: the rows come in the order of the primary key, or in any
\* other order the server chooses)
RetiredOrders(table) ==
    LET R == { i \in 1..Len(table) : table[i].status = "retired" }
    IN  { s \in [1..Cardinality(R) -> R] : \A a, b \in 1..Cardinality(R) : a # b => s[a] # s[b] }

\* getRetiredMasterKeys(): the possible results, each a list of
\* {keyId, keyMaterial} or a throw (ok = FALSE) when a decryptKey throws
getRetiredMasterKeys(table) ==
    { [ok |-> \A k \in 1..Len(s) : \A d \in decryptKey(table[s[k]].key_material) : d.ok,
       list |-> [k \in 1..Len(s) |->
                   [keyId |-> table[s[k]].key_id,
                    keyMaterial |-> JsBuffer((CHOOSE d \in decryptKey(table[s[k]].key_material) : TRUE).data)]]] :
      s \in RetiredOrders(table) }

\* listMasterKeys with SELECT * in place of the three columns
listMasterKeys_Star(table) ==
    { [i \in 1..Len(table) |-> table[f[i]]] :
      f \in { g \in [1..Len(table) -> 1..Len(table)] :
                /\ \A i, j \in 1..Len(table) : i # j => g[i] # g[j]
                /\ \A i, j \in 1..Len(table) : i < j => table[g[i]].created_at >= table[g[j]].created_at } }

\* listMasterKeys(): SELECT key_id, created_at, status FROM master_keys
\* ORDER BY created_at DESC: the possible results (rows of one created_at
\* come in any order)
listMasterKeys(table) ==
    { [i \in 1..Len(table) |->
         [key_id |-> table[f[i]].key_id, created_at |-> table[f[i]].created_at, status |-> table[f[i]].status]] :
      f \in { g \in [1..Len(table) -> 1..Len(table)] :
                /\ \A i, j \in 1..Len(table) : i # j => g[i] # g[j]
                /\ \A i, j \in 1..Len(table) : i < j => table[g[i]].created_at >= table[g[j]].created_at } }

(* ------------------ master-key-server/index.js (vault) ------------------ *)

\* pkcs7Pad(buf)
pkcs7Pad(buf) == buf \o Fill(BlockSize - (Len(buf) % BlockSize), BlockSize - (Len(buf) % BlockSize))

\* pkcs7Unpad(buf): buf.slice(0, -buf[buf.length - 1]); slice(0, -0) and
\* slice(0, NaN) are slice(0, 0), and an end before the start is empty
pkcs7Unpad(buf) ==
    LET padLen == IF Len(buf) = 0 THEN 0 ELSE buf[Len(buf)]
    IN  IF padLen = 0 \/ padLen >= Len(buf) THEN <<>> ELSE Take(buf, Len(buf) - padLen)

\* the empty string
NoText == B64Encode(Raw(<<>>))

\* !x for a base64 text
IsEmptyText(text) == BufLen(B64Decode(text)) = 0

EncryptResponse(status, key, dek) == [status |-> status, encrypted_key |-> key, encrypted_dek |-> dek]

\* POST /api/encrypt: the possible responses to {data, dek}; iv and iv2 are
\* the two crypto.randomBytes(16)
VaultEncrypt(table, base64Data, dek, iv, iv2) ==
    IF IsEmptyText(base64Data) \/ Len(dek) = 0 THEN { EncryptResponse(400, NoText, NoText) }
    ELSE { IF ~mk.ok \/ Len(mk.keyMaterial.bytes) # KeyLen \/ Len(HexDecode(dek)) # KeyLen
           THEN EncryptResponse(500, NoText, NoText)
           ELSE EncryptResponse(200,
                    B64Encode(CbcBlob(HexDecode(dek), iv, pkcs7Pad(B64Decode(base64Data).raw))),
                    B64Encode(CbcBlob(mk.keyMaterial.bytes, iv2, pkcs7Pad(HexDecode(dek))))) :
           mk \in getActiveMasterKey(table) }

\* POST /api/decrypt-dek, lines 81-87: the DEK unwrapped from the blob
\* under masterKey: the possible outcomes, ok = FALSE for a throw
UnwrapDek(encryptedDekB64, masterKey) ==
    LET encryptedDek == B64Decode(encryptedDekB64)
    IN  { IF d.ok THEN Ok(pkcs7Unpad(d.data)) ELSE Fail :
          d \in CbcDecrypt(masterKey, SliceIv(encryptedDek), encryptedDek) }

(* --------------------------- auth/index.js ------------------------------ *)

Users == {"user-7", "user-42"}

\* the id of a token payload that carries none
NoId == "none"

\* a JWT: the id of its payload and the state of its signature
Token(id, sig) == [id |-> id, sig |-> sig]

\* no Authorization header
NoToken == Token(NoId, "missing")

\* the tokens a caller may present: issued to a user, issued for a payload
\* without id (POST /issue signs any payload), forged, expired, or none
Tokens ==
    { Token(u, "good") : u \in Users }
    \cup { Token(NoId, "good"), Token("user-7", "forged"), Token("user-42", "expired"), NoToken }

\* POST /verify: 400 without a token, 200 {valid, payload} when jwt.verify
\* accepts the signature and the expiry, 401 otherwise
Verify(token) ==
    IF token.sig = "missing" THEN [status |-> 400, valid |-> FALSE, id |-> NoId]
    ELSE IF token.sig = "good" THEN [status |-> 200, valid |-> TRUE, id |-> token.id]
    ELSE [status |-> 401, valid |-> FALSE, id |-> NoId]

\* POST /issue: jwt.sign(payload)
Issue(id) == Token(id, "good")

(* --------------------- key-server/index.js (store) ---------------------- *)

\* CREATE TABLE kms_keys (user_id PRIMARY KEY, encrypted_key, encrypted_dek, created_at)
KmsColumns == {"user_id", "encrypted_key", "encrypted_dek", "created_at"}

\* InsertKmsKey as REPLACE INTO kms_keys: the row of the user is overwritten
InsertKmsKey_Replace(table, user_id, encrypted_key, encrypted_dek, now) ==
    [ok |-> TRUE,
     table |-> { r \in table : r.user_id # user_id }
               \cup { [user_id |-> user_id, encrypted_key |-> encrypted_key,
                        encrypted_dek |-> encrypted_dek, created_at |-> now] }]

\* INSERT INTO kms_keys (user_id, encrypted_key, encrypted_dek, created_at)
InsertKmsKey(table, user_id, encrypted_key, encrypted_dek, now) ==
    IF \E r \in table : r.user_id = user_id
    THEN [ok |-> FALSE, table |-> table]
    ELSE [ok |-> TRUE,
          table |-> table \cup { [user_id |-> user_id, encrypted_key |-> encrypted_key,
                                  encrypted_dek |-> encrypted_dek, created_at |-> now] }]

\* GET /api/keys, lines 121-131: encrypted_key deciphered under the DEK
\* that decrypt-dek returned, the padding cut off, the rest read as UTF-8:
\* the possible responses
PayloadDecrypt(encrypted_key, dek) ==
    LET encryptedKeyBuf == B64Decode(encrypted_key)
        dekBuf == HexDecode(dek)
        \* paddedPlain.slice(0, -padLen): slice(0, -0) is empty
        cut(paddedPlain) ==
            LET padLen == IF Len(paddedPlain) = 0 THEN 0 ELSE paddedPlain[Len(paddedPlain)]
            IN  IF padLen = 0 \/ padLen >= Len(paddedPlain) THEN <<>>
                ELSE Take(paddedPlain, Len(paddedPlain) - padLen)
    IN  { IF d.ok THEN [status |-> 200, data |-> Utf8Decode(cut(d.data))]
          ELSE [status |-> 500, data |-> <<>>] :
          d \in CbcDecrypt(dekBuf, SliceIv(encryptedKeyBuf), encryptedKeyBuf) }

(* ---------------- scripts/secure-document-manager.js ------------------- *)

\* encryptDocument(documentData, dek) with iv = crypto.randomBytes(IV_LENGTH)
encryptDocument(documentData, dek, iv) ==
    B64Encode(GcmBlob(HexDecode(dek), iv, Utf8Encode(JsonStringify(documentData))))

\* decryptDocument(encryptedData, dek): the document, or a throw (ok = FALSE)
decryptDocument(encryptedData, dek) ==
    LET encryptedBuffer == B64Decode(encryptedData)
        d == GcmDecrypt(HexDecode(dek), SliceIv(encryptedBuffer), encryptedBuffer)
        parsed == JsonParse(Utf8Decode(d.data))
    IN  IF d.ok /\ parsed.ok THEN parsed ELSE [ok |-> FALSE, value |-> JsStr(<<>>)]

(* ------------------- master-key-server/rotate-mk.js --------------------- *)

\* masterKey.padEnd(32, '0') and Buffer.from of it: padEnd is a method of
\* strings; on a Buffer the call throws a TypeError
PadEndKey(masterKey) ==
    IF masterKey.type = "string"
    THEN Ok(masterKey.bytes \o Fill(IF Len(masterKey.bytes) < KeyLen THEN KeyLen - Len(masterKey.bytes) ELSE 0, 48))
    ELSE Fail

\* decryptDek(encryptedDekB64, masterKey): the possible outcomes
decryptDek(encryptedDekB64, masterKey) ==
    LET encryptedDek == B64Decode(encryptedDekB64)
        mkBytes == PadEndKey(masterKey)
    IN  IF ~mkBytes.ok THEN {Fail}
        ELSE { IF d.ok THEN Ok(pkcs7Unpad(d.data)) ELSE Fail :
               d \in CbcDecrypt(mkBytes.data, SliceIv(encryptedDek), encryptedDek) }

\* encryptDek(dekBytes, masterKey) with iv = crypto.randomBytes(16)
encryptDek(dekBytes, masterKey, iv) ==
    LET mkBytes == PadEndKey(masterKey)
    IN  IF ~mkBytes.ok THEN [ok |-> FALSE, text |-> NoText]
        ELSE [ok |-> TRUE, text |-> B64Encode(CbcBlob(mkBytes.data, iv, pkcs7Pad(dekBytes)))]

\* the columns rotateMasterKey selects and filters on
RotateColumns == {"key_id", "encrypted_dek"}

\* SELECT <columns> FROM kms_keys: an unknown column is an error of the
\* query (ER_BAD_FIELD_ERROR), which execute() throws
SelectKms(table, columns) ==
    IF columns \subseteq KmsColumns
    THEN [ok |-> TRUE, rows |-> { [c \in columns |-> r[c]] : r \in table }]
    ELSE [ok |-> FALSE, rows |-> {}]

\* UPDATE kms_keys SET encrypted_dek = ? WHERE key_id = ?
UpdateKmsDek(table, newEncryptedDek, key_id) ==
    IF "key_id" \in KmsColumns
    THEN [ok |-> TRUE,
          table |-> { IF r["key_id"] = key_id THEN [r EXCEPT !.encrypted_dek = newEncryptedDek] ELSE r : r \in table }]
    ELSE [ok |-> FALSE, table |-> table]

\* the body of `for (const row of rows)`: decryptDek under the old key,
\* encryptDek under the new one, the UPDATE; a throw of any of the three is
\* caught and the row is logged as failed.  The possible results of the
\* loop over `rows`: the table and the rows that failed.
RECURSIVE RotateRows(_, _, _, _, _)
RotateRows(rows, table, failed, old, new) ==
    IF rows = {} THEN { [table |-> table, failed |-> failed] }
    ELSE LET row == CHOOSE r \in rows : TRUE
             rest == rows \ {row}
             step(d, iv) ==
                 LET e == encryptDek(d.data, new, iv)
                     u == UpdateKmsDek(table, e.text, row["key_id"])
                 IN  IF d.ok /\ e.ok /\ u.ok
                     THEN RotateRows(rest, u.table, failed, old, new)
                     ELSE RotateRows(rest, table, failed \cup {row}, old, new)
         IN  UNION { UNION { step(d, iv) : iv \in IVs } : d \in decryptDek(row.encrypted_dek, old) }

(* ------------------------------- state --------------------------------- *)

\* administrators running script.js / addMasterKey
Admins == {"adm1", "adm2"}

\* crypto.randomBytes(32) of the key server: the DEKs it may draw
Deks == { Fill(KeyLen, 1), Fill(KeyLen, 2) }

\* the secrets callers store: "s"
Datas == { <<115>> }

VARIABLES
    master_keys,   \* table master_keys, in order of its AUTO_INCREMENT id
    clock,         \* Date.now()
    adds,          \* number of addMasterKey calls started
    adm,           \* per administrator: position in addMasterKey and its arguments
    kms_keys,      \* table kms_keys: the set of its rows
    rot,           \* the rotation script: position, OLD_MASTER_KEY, NEW_MASTER_KEY
    dd,            \* the decrypt-dek request in the vault and its response
    pay,           \* a payload: its plaintext, its DEK, its blob and what decryption returned
    enc,           \* the /api/encrypt request in the vault and its response
    post,          \* the last POST /api/keys request of the key server and its response
    user_documents \* table user_documents of the document manager: the set of its rows

vars == <<master_keys, clock, adds, adm, kms_keys, rot, dd, pay, enc, post, user_documents>>

IdleAdm == [pc |-> "idle", keyId |-> 0, hexKey |-> <<>>, now |-> 0]

\* `before` and `again` are history: what each uncorrupted row unwrapped to
\* under the old key when the first run with this pair of keys began, and
\* whether the present run is a later run with the same pair
IdleRot == [pc |-> "idle", old |-> JsBuffer(<<>>), new |-> JsBuffer(<<>>), runs |-> 0, failed |-> {},
            before |-> {}, again |-> FALSE]

\* `auth` and `keyRead` are history: what POST /verify answered (status 0:
\* no answer), and whether getActiveMasterKey was called for the request
NoAnswer == [status |-> 0, valid |-> FALSE, id |-> NoId]

IdleDd == [pc |-> "idle", token |-> NoToken, encrypted_dek |-> NoText, auth |-> NoAnswer,
           keyRead |-> FALSE, status |-> 0, dek |-> <<>>]

\* the plaintexts given to /api/encrypt: "hi", sixteen times "a" (a whole
\* block), the two bytes of U+00E9, and the byte 255, which is not UTF-8
Plains == { <<104, 105>>, Fill(BlockSize, 97), <<195, 169>>, <<255>> }

\* the documents given to encryptDocument: "hi", a string of a quote, a
\* backslash and a newline, the string of U+00E9, and {"id": "7"}
Docs == { JsStr(<<104, 105>>), JsStr(<<34, 92, 10>>), JsStr(<<233>>), JsObj(<<105, 100>>, <<55>>) }

\* the bits of a byte a fault or an attacker flips
TamperBits == {0, 7}

IdlePay == [pc |-> "idle", path |-> "none", plain |-> <<>>, doc |-> JsStr(<<>>), dek |-> <<>>,
            blob |-> NoText, ok |-> FALSE, data |-> <<>>, value |-> JsStr(<<>>)]

IdleEnc == [pc |-> "idle", data |-> NoText, dek |-> <<>>, keyRead |-> FALSE,
            response |-> EncryptResponse(0, NoText, NoText)]

\* the dek fields given to /api/encrypt: none, 64 hex digits, "abcd", and 64
\* characters of which the third is no hex digit
EncDeks ==
    { <<>>, HexEncode(Fill(KeyLen, 1)), <<10, 11, 12, 13>>,
      [HexEncode(Fill(KeyLen, 1)) EXCEPT ![3] = 16] }

\* the data fields given to /api/encrypt: none, and the base64 of "s"
EncDatas == { NoText } \cup { B64Encode(Raw(d)) : d \in Datas }

\* `authUp`, `fresh` and `retry` are history: whether the authorization
\* service answered /issue, whether the user had no row when the request
\* came, and whether the request repeats one that began so and ended 500
IdlePost == [user_id |-> NoId, data |-> <<>>, status |-> 0, access_token |-> NoToken,
             authUp |-> FALSE, fresh |-> FALSE, retry |-> FALSE]

Init ==
    /\ master_keys = <<>>
    /\ clock = 0
    /\ adds = 0
    /\ adm = [a \in Admins |-> IdleAdm]
    /\ kms_keys = {}
    /\ rot = IdleRot
    /\ dd = IdleDd
    /\ pay = IdlePay
    /\ enc = IdleEnc
    /\ post = IdlePost
    /\ user_documents = {}

\* the state after script.js has added the first master key
InitCipher ==
    /\ \E iv \in IVs :
         master_keys = InsertMasterKey(<<>>, 0, encryptKey(HexDecode(HexEncode(KeyMaterial(1))), iv), 0).table
    /\ clock = 0
    /\ adds = 1
    /\ adm = [a \in Admins |-> IdleAdm]
    /\ kms_keys = {}
    /\ rot = IdleRot
    /\ dd = IdleDd
    /\ pay = IdlePay
    /\ enc = IdleEnc
    /\ post = IdlePost
    /\ user_documents = {}

\* time passes.  The code compares times only for equality and order, so a
\* millisecond in which no add call read the clock is left out.
Tick ==
    /\ clock < MaxClock
    /\ \/ \E a \in Admins : adm[a].pc # "idle" /\ adm[a].now = clock
       \/ \E i \in 1..Len(master_keys) : master_keys[i].created_at = clock
    /\ clock' = clock + 1
    /\ UNCHANGED <<master_keys, adds, adm, kms_keys, rot, dd, pay, enc, post, user_documents>>

(* master key store *)

\* script.js: keyId = `key-${Date.now()}`, hexKey = randomBytes(32) in hex,
\* then addMasterKey(keyId, hexKey) up to `now = new Date()`
AddStart(a) ==
    /\ adm[a].pc \in {"idle", "failed"}
    /\ adds < MaxKeys
    /\ adds' = adds + 1
    /\ adm' = [adm EXCEPT ![a] = [pc |-> "started", keyId |-> clock,
                                  hexKey |-> HexEncode(KeyMaterial(adds + 1)), now |-> clock]]
    /\ UNCHANGED <<master_keys, clock, kms_keys, rot, dd, pay, enc, post, user_documents>>

\* addMasterKey: encryptKey and the INSERT; a duplicate key_id throws
AddInsert(a) ==
    /\ adm[a].pc = "started"
    /\ \E iv \in IVs :
         LET r == InsertMasterKey(master_keys, adm[a].keyId,
                                  encryptKey(HexDecode(adm[a].hexKey), iv), adm[a].now)
         IN  /\ master_keys' = r.table
             /\ adm' = [adm EXCEPT ![a] = IF r.ok THEN [@ EXCEPT !.pc = "inserted"] ELSE IdleAdm]
    /\ UNCHANGED <<clock, adds, kms_keys, rot, dd, pay, enc, post, user_documents>>

\* addMasterKey: the UPDATE that retires every other active record
AddRetire(a) ==
    /\ adm[a].pc = "inserted"
    /\ master_keys' = RetireOthers(master_keys, adm[a].keyId)
    /\ adm' = [adm EXCEPT ![a] = IdleAdm]
    /\ UNCHANGED <<clock, adds, kms_keys, rot, dd, pay, enc, post, user_documents>>

\* addMasterKey: the UPDATE is rejected (the connection is lost, a lock
\* wait times out): execute() throws, nothing catches it, and the call ends
\* with the INSERT already applied
AddRetireFails(a) ==
    /\ adm[a].pc = "inserted"
    /\ adm' = [adm EXCEPT ![a] = [@ EXCEPT !.pc = "failed"]]
    /\ UNCHANGED <<master_keys, clock, adds, kms_keys, rot, dd, pay, enc, post, user_documents>>

(* key server *)

\* POST /api/keys {data, user_id}: a fresh DEK, the vault's /api/encrypt,
\* the INSERT into kms_keys; an error of the vault or of the INSERT is
\* answered 500 and stores nothing
StoreKey(u, data) ==
    /\ \E dek \in Deks, iv \in IVs, iv2 \in IVs :
         /\ \A r \in kms_keys : B64Decode(r.encrypted_key).key # dek
         /\ \A other \in Deks : (\A r \in kms_keys : B64Decode(r.encrypted_key).key # other) => dek[1] <= other[1]
         /\ \E resp \in VaultEncrypt(master_keys, B64Encode(Raw(data)), HexEncode(dek), iv, iv2) :
              kms_keys' = IF resp.status = 200
                          THEN InsertKmsKey(kms_keys, u, resp.encrypted_key, resp.encrypted_dek, clock).table
                          ELSE kms_keys
    /\ UNCHANGED <<master_keys, clock, adds, adm, rot, dd, pay, enc, post, user_documents>>

\* POST /api/keys {data, user_id} with its response: a fresh DEK, the
\* vault's /api/encrypt, the INSERT into kms_keys, then POST /issue of the
\* authorization service (authUp: it answers); any throw is answered 500
PostKeys(u, data, authUp) ==
    /\ \E dek \in Deks, iv \in IVs, iv2 \in IVs :
         LET unused == { d \in Deks : \A r \in kms_keys : B64Decode(r.encrypted_key).key # d }
             pool == IF unused = {} THEN Deks ELSE unused
         IN  /\ dek \in pool
             /\ \A other \in pool : dek[1] <= other[1]
             /\ \E resp \in VaultEncrypt(master_keys, B64Encode(Raw(data)), HexEncode(dek), iv, iv2) :
                  LET ins == IF resp.status = 200
                             THEN InsertKmsKey(kms_keys, u, resp.encrypted_key, resp.encrypted_dek, clock)
                             ELSE [ok |-> FALSE, table |-> kms_keys]
                      done == ins.ok /\ authUp
                  IN  /\ kms_keys' = ins.table
                      /\ post' = [user_id |-> u, data |-> data,
                                  status |-> IF done THEN 200 ELSE 500,
                                  access_token |-> IF done THEN Issue(u) ELSE NoToken,
                                  authUp |-> authUp,
                                  fresh |-> \A r \in kms_keys : r.user_id # u,
                                  retry |-> /\ post.status = 500
                                            /\ post.user_id = u
                                            /\ post.data = data
                                            /\ (post.fresh \/ post.retry)]
    /\ UNCHANGED <<master_keys, clock, adds, adm, rot, dd, pay, enc, user_documents>>

\* storeDocument(userId, documentType, documentData), lines 214-262: a
\* fresh DEK, encryptDocument, the vault's /api/encrypt for the wrapped DEK,
\* the INSERT into user_documents; a throw of the vault stores nothing
StoreDocument(u, doc) ==
    /\ \E dek \in Deks, iv \in IVs, iv2 \in IVs, iv3 \in IVs :
         /\ \A r \in kms_keys : B64Decode(r.encrypted_key).key # dek
         /\ \A r \in user_documents : B64Decode(r.encrypted_data).key # dek
         /\ \E resp \in VaultEncrypt(master_keys, B64Encode(Raw(Utf8Encode(JsonStringify(doc)))),
                                      HexEncode(dek), iv, iv2) :
              user_documents' =
                  IF resp.status = 200
                  THEN user_documents \cup
                         { [id |-> Cardinality(user_documents) + 1, user_id |-> u,
                            encrypted_data |-> encryptDocument(doc, HexEncode(dek), iv3),
                            encrypted_dek |-> resp.encrypted_dek] }
                  ELSE user_documents
    /\ UNCHANGED <<master_keys, clock, adds, adm, kms_keys, rot, dd, pay, enc, post>>

\* whether bits of the blob have been flipped since it was written
Corrupted(text) == B64Decode(text).flips # {}

\* a fault of the storage: the lowest bit of the last byte of a stored
\* wrappedDEK flips
CorruptDek(u) ==
    /\ \E r \in kms_keys :
         /\ r.user_id = u
         /\ ~Corrupted(r.encrypted_dek)
         /\ kms_keys' = (kms_keys \ {r}) \cup
              { [r EXCEPT !.encrypted_dek =
                   B64Encode([B64Decode(r.encrypted_dek) EXCEPT !.flips = {<<BufLen(B64Decode(r.encrypted_dek)), 0>>}])] }
    /\ UNCHANGED <<master_keys, clock, adds, adm, rot, dd, pay, enc, post, user_documents>>

(* rotation *)

\* the rows of the table wrapped under masterKey: each with the DEK the
\* vault's unwrap yields from it, or marked corrupt
UnwrapsUnder(table, masterKey) ==
    { [user_id |-> r.user_id,
       corrupt |-> Corrupted(r.encrypted_dek),
       dek |-> IF Corrupted(r.encrypted_dek) THEN <<>>
               ELSE (CHOOSE d \in UnwrapDek(r.encrypted_dek, masterKey) : TRUE).data] :
      r \in { q \in table : B64Decode(q.encrypted_dek).key = masterKey } }

\* rotateMasterKey, lines 52-57: what the run holds after its two key
\* reads; a throw ends the run
KeyReads ==
    { IF ~active.ok \/ ~retired.ok \/ Len(retired.list) = 0
      THEN [IdleRot EXCEPT !.pc = "failed", !.runs = rot.runs + 1]
      ELSE LET old == retired.list[1].keyMaterial
               new == active.keyMaterial
               same == rot.old = old /\ rot.new = new
           IN  [pc |-> "keys", old |-> old, new |-> new, runs |-> rot.runs + 1, failed |-> {},
                before |-> IF same THEN rot.before ELSE UnwrapsUnder(kms_keys, old.bytes),
                again |-> same] :
      active \in getActiveMasterKey(master_keys), retired \in getRetiredMasterKeys(master_keys) }

\* node rotate-mk.js: rotateMasterKey up to its key reads
RotateStart ==
    /\ rot.pc \in {"idle", "done", "failed"}
    /\ rot.runs < MaxRuns
    /\ \E r \in KeyReads : rot' = r
    /\ UNCHANGED <<master_keys, clock, adds, adm, kms_keys, dd, pay, enc, post, user_documents>>

\* RotateRun writing every row back with REPLACE INTO kms_keys (user_id,
\* encrypted_dek): the columns it does not name are reset
RotateRun_Replace ==
    /\ rot.pc = "keys"
    /\ kms_keys' = { [r EXCEPT !.encrypted_key = NoText, !.created_at = 0] : r \in kms_keys }
    /\ rot' = [rot EXCEPT !.pc = "done"]
    /\ UNCHANGED <<master_keys, clock, adds, adm, dd, pay, enc, post, user_documents>>

\* rotateMasterKey, lines 59-79: the SELECT (a throw ends the run) and the
\* loop over its rows
RotateRun ==
    /\ rot.pc = "keys"
    /\ LET sel == SelectKms(kms_keys, RotateColumns)
       IN  IF ~sel.ok
           THEN /\ rot' = [rot EXCEPT !.pc = "failed"]
                /\ UNCHANGED kms_keys
           ELSE \E res \in RotateRows(sel.rows, kms_keys, {}, rot.old, rot.new) :
                   /\ kms_keys' = res.table
                   /\ rot' = [rot EXCEPT !.pc = "done", !.failed = res.failed]
    /\ UNCHANGED <<master_keys, clock, adds, adm, dd, pay, enc, post, user_documents>>

(* the master key manager that rotates at the end of addMasterKey *)

\* addMasterKey, lines 126-131: the UPDATE that retires every other active
\* record; rotateMasterKey is called next
AddRetireThenRotate(a) ==
    /\ adm[a].pc = "inserted"
    /\ master_keys' = RetireOthers(master_keys, adm[a].keyId)
    /\ adm' = [adm EXCEPT ![a] = [@ EXCEPT !.pc = "rotate"]]
    /\ UNCHANGED <<clock, adds, kms_keys, rot, dd, pay, enc, post, user_documents>>

\* line 132, await rotateMasterKey(): the key reads of the run; their throw
\* is the throw of addMasterKey
AddRotateStart(a) ==
    /\ adm[a].pc = "rotate"
    /\ rot.pc \in {"idle", "done", "failed"}
    /\ \E r \in KeyReads :
         /\ rot' = r
         /\ adm' = [adm EXCEPT ![a] = [@ EXCEPT !.pc = IF r.pc = "failed" THEN "failed" ELSE "rotating"]]
    /\ UNCHANGED <<master_keys, clock, adds, kms_keys, dd, pay, enc, post, user_documents>>

\* lines 132-133: the run has ended; addMasterKey returns, or throws what
\* the run threw
AddRotateEnd(a) ==
    /\ adm[a].pc = "rotating"
    /\ rot.pc \in {"done", "failed"}
    /\ adm' = [adm EXCEPT ![a] = IF rot.pc = "done" THEN IdleAdm ELSE [@ EXCEPT !.pc = "failed"]]
    /\ UNCHANGED <<master_keys, clock, adds, kms_keys, rot, dd, pay, enc, post, user_documents>>

(* vault: POST /api/decrypt-dek *)

\* AuthGate without the test of payload.data?.payload?.id
AuthGate_NoIdTest(token, reachable) ==
    IF ~reachable \/ Verify(token).status # 200 THEN 401 ELSE 200

\* lines 67-75: what the handler does with the answer of POST /verify;
\* axios throws when the service is unreachable or answers 4xx
AuthGate(token, reachable) ==
    IF ~reachable \/ Verify(token).status # 200 THEN 401
    ELSE IF Verify(token).id = NoId THEN 401
    ELSE 200

\* lines 61-65: the request arrives; 400 when the token or the blob is
\* missing.  The handler keeps nothing between requests, so one request,
\* arriving at any moment, stands for each of them.
DdReceive(token, encryptedDekB64) ==
    /\ dd.pc = "idle"
    /\ dd' = IF token.sig = "missing" \/ IsEmptyText(encryptedDekB64)
             THEN [IdleDd EXCEPT !.pc = "done", !.token = token, !.encrypted_dek = encryptedDekB64, !.status = 400]
             ELSE [IdleDd EXCEPT !.pc = "verify", !.token = token, !.encrypted_dek = encryptedDekB64]
    /\ UNCHANGED <<master_keys, clock, adds, adm, kms_keys, rot, pay, enc, post, user_documents>>

\* lines 67-75: the verify call returns (or fails)
DdVerify ==
    /\ dd.pc = "verify"
    /\ \E reachable \in BOOLEAN :
         LET gate == AuthGate(dd.token, reachable)
             answer == IF reachable THEN Verify(dd.token) ELSE NoAnswer
         IN  dd' = IF gate = 200
                   THEN [dd EXCEPT !.pc = "unwrap", !.auth = answer]
                   ELSE [dd EXCEPT !.pc = "done", !.auth = answer, !.status = gate]
    /\ UNCHANGED <<master_keys, clock, adds, adm, kms_keys, rot, pay, enc, post, user_documents>>

\* line 69: the authorization service takes the verify call and never
\* answers it. axios.post is given no timeout (its default, 0, is none), so
\* the promise never settles and the handler is never resumed
DdVerifyHangs ==
    /\ dd.pc = "verify"
    /\ dd' = [dd EXCEPT !.pc = "waiting"]
    /\ UNCHANGED <<master_keys, clock, adds, adm, kms_keys, rot, pay, enc, post, user_documents>>

\* lines 77-93: getActiveMasterKey, the unwrap, the response
DdUnwrap ==
    /\ dd.pc = "unwrap"
    /\ \E mk \in getActiveMasterKey(master_keys) :
         IF ~mk.ok \/ Len(mk.keyMaterial.bytes) # KeyLen
         THEN dd' = [dd EXCEPT !.pc = "done", !.keyRead = TRUE, !.status = 500]
         ELSE \E d \in UnwrapDek(dd.encrypted_dek, mk.keyMaterial.bytes) :
                dd' = IF d.ok
                      THEN [dd EXCEPT !.pc = "done", !.keyRead = TRUE, !.status = 200, !.dek = HexEncode(d.data)]
                      ELSE [dd EXCEPT !.pc = "done", !.keyRead = TRUE, !.status = 500]
    /\ UNCHANGED <<master_keys, clock, adds, adm, kms_keys, rot, pay, enc, post, user_documents>>

\* lines 67-93: the steps by which a request that was received goes on
DdStep == DdVerify \/ DdVerifyHangs \/ DdUnwrap

\* the blobs a caller may send: the stored wrapped DEKs, a text that is no
\* wrapped DEK (5 bytes), and none
RequestBlobs == { r.encrypted_dek : r \in kms_keys } \cup { B64Encode(Raw(Fill(5, 7))), NoText }

(* vault: POST /api/encrypt *)

\* lines 26-29: the request arrives; the test of the two fields
EncReceive(base64Data, dek) ==
    /\ enc.pc = "idle"
    /\ enc' = IF IsEmptyText(base64Data) \/ Len(dek) = 0
              THEN [IdleEnc EXCEPT !.pc = "done", !.data = base64Data, !.dek = dek,
                                   !.response = EncryptResponse(400, NoText, NoText)]
              ELSE [IdleEnc EXCEPT !.pc = "crypto", !.data = base64Data, !.dek = dek]
    /\ UNCHANGED <<master_keys, clock, adds, adm, kms_keys, rot, dd, pay, post, user_documents>>

\* lines 31-56: getActiveMasterKey, the two encryptions, the response
EncCrypto ==
    /\ enc.pc = "crypto"
    /\ \E iv \in IVs, iv2 \in IVs :
         \E resp \in VaultEncrypt(master_keys, enc.data, enc.dek, iv, iv2) :
            enc' = [enc EXCEPT !.pc = "done", !.keyRead = TRUE, !.response = resp]
    /\ UNCHANGED <<master_keys, clock, adds, adm, kms_keys, rot, dd, pay, post, user_documents>>

(* payloads *)

\* POST /api/encrypt with {data: base64 of plain, dek}: the encrypted_key of
\* the response is kept
PayEncrypt(plain, dek) ==
    /\ pay.pc = "idle"
    /\ \E iv \in IVs, iv2 \in IVs :
         \E resp \in VaultEncrypt(master_keys, B64Encode(Raw(plain)), HexEncode(dek), iv, iv2) :
            pay' = IF resp.status = 200
                   THEN [IdlePay EXCEPT !.pc = "stored", !.path = "kms", !.plain = plain,
                                        !.dek = HexEncode(dek), !.blob = resp.encrypted_key]
                   ELSE [IdlePay EXCEPT !.pc = "failed", !.path = "kms", !.plain = plain]
    /\ UNCHANGED <<master_keys, clock, adds, adm, kms_keys, rot, dd, enc, post, user_documents>>

\* encryptDocument(doc, dek)
DocEncrypt(doc, dek) ==
    /\ pay.pc = "idle"
    /\ \E iv \in IVs :
         pay' = [IdlePay EXCEPT !.pc = "stored", !.path = "doc", !.doc = doc,
                                !.dek = HexEncode(dek), !.blob = encryptDocument(doc, HexEncode(dek), iv)]
    /\ UNCHANGED <<master_keys, clock, adds, adm, kms_keys, rot, dd, enc, post, user_documents>>

\* one bit of the stored blob flips: in the first byte after the IV (the
\* first byte of the ciphertext, or of the tag), or in the last byte
PayTamper(last, bit) ==
    /\ pay.pc = "stored"
    /\ ~Corrupted(pay.blob)
    /\ LET buf == B64Decode(pay.blob)
           pos == IF last THEN BufLen(buf) ELSE BlockSize + 1
       IN  pay' = [pay EXCEPT !.blob = B64Encode([buf EXCEPT !.flips = {<<pos, bit>>}])]
    /\ UNCHANGED <<master_keys, clock, adds, adm, kms_keys, rot, dd, enc, post, user_documents>>

\* GET /api/keys, lines 121-131, with the DEK of the payload
PayDecrypt ==
    /\ pay.pc = "stored"
    /\ pay.path = "kms"
    /\ \E r \in PayloadDecrypt(pay.blob, pay.dek) :
         pay' = [pay EXCEPT !.pc = "read", !.ok = (r.status = 200), !.data = r.data]
    /\ UNCHANGED <<master_keys, clock, adds, adm, kms_keys, rot, dd, enc, post, user_documents>>

\* decryptDocument(blob, dek)
DocDecrypt ==
    /\ pay.pc = "stored"
    /\ pay.path = "doc"
    /\ LET r == decryptDocument(pay.blob, pay.dek)
       IN  pay' = [pay EXCEPT !.pc = "read", !.ok = r.ok, !.value = r.value]
    /\ UNCHANGED <<master_keys, clock, adds, adm, kms_keys, rot, dd, enc, post, user_documents>>

(* key server: GET /api/keys *)

\* GetStart with the SELECT lacking its WHERE user_id = ? clause
GetStart_AnyRow(token, reachable) ==
    /\ pay.pc \in {"idle", "read"}
    /\ dd.pc \in {"idle", "done"}
    /\ LET answer == Verify(token)
           rows == kms_keys
       IN  IF \/ token.sig = "missing"
              \/ ~reachable
              \/ answer.status # 200
              \/ ~answer.valid
              \/ answer.id = NoId
              \/ rows = {}
           THEN /\ pay' = [IdlePay EXCEPT !.pc = "read", !.path = "get"]
                /\ dd' = dd
           ELSE \E row \in rows :
                   /\ pay' = [IdlePay EXCEPT !.pc = "asked", !.path = "get", !.blob = row.encrypted_key]
                   /\ dd' = IF IsEmptyText(row.encrypted_dek)
                            THEN [IdleDd EXCEPT !.pc = "done", !.token = token,
                                                !.encrypted_dek = row.encrypted_dek, !.status = 400]
                            ELSE [IdleDd EXCEPT !.pc = "verify", !.token = token,
                                                !.encrypted_dek = row.encrypted_dek]
    /\ UNCHANGED <<master_keys, clock, adds, adm, kms_keys, rot, enc, post, user_documents>>

\* lines 85-115: the token test, POST /verify (reachable: it answers), the
\* SELECT of the user's row, and the POST to the vault's /api/decrypt-dek
\* with that row's encrypted_dek; every early return ends the request
GetStart(token, reachable) ==
    /\ pay.pc \in {"idle", "read"}
    /\ dd.pc \in {"idle", "done"}
    /\ LET answer == Verify(token)
           rows == { r \in kms_keys : r.user_id = answer.id }
       IN  IF \/ token.sig = "missing"
              \/ ~reachable
              \/ answer.status # 200
              \/ ~answer.valid
              \/ answer.id = NoId
              \/ rows = {}
           THEN /\ pay' = [IdlePay EXCEPT !.pc = "read", !.path = "get"]
                /\ dd' = dd
           ELSE \E row \in rows :
                   /\ pay' = [IdlePay EXCEPT !.pc = "asked", !.path = "get", !.blob = row.encrypted_key]
                   /\ dd' = IF IsEmptyText(row.encrypted_dek)
                            THEN [IdleDd EXCEPT !.pc = "done", !.token = token,
                                                !.encrypted_dek = row.encrypted_dek, !.status = 400]
                            ELSE [IdleDd EXCEPT !.pc = "verify", !.token = token,
                                                !.encrypted_dek = row.encrypted_dek]
    /\ UNCHANGED <<master_keys, clock, adds, adm, kms_keys, rot, enc, post, user_documents>>

\* GetFinish deleting the row it has read out: a secret that can be
\* retrieved once
GetFinish_Delete ==
    /\ pay.pc = "asked"
    /\ pay.path = "get"
    /\ dd.pc = "done"
    /\ IF dd.status # 200
       THEN pay' = [pay EXCEPT !.pc = "read"] /\ kms_keys' = kms_keys
       ELSE /\ \E r \in PayloadDecrypt(pay.blob, dd.dek) :
                 pay' = [pay EXCEPT !.pc = "read", !.dek = dd.dek, !.ok = (r.status = 200), !.data = r.data]
            /\ kms_keys' = { r \in kms_keys : r.encrypted_key # pay.blob }
    /\ UNCHANGED <<master_keys, clock, adds, adm, rot, dd, enc, post, user_documents>>

\* lines 117-134: the vault has answered; an answer other than 200 makes
\* axios throw (500), else the payload is deciphered under the DEK
GetFinish ==
    /\ pay.pc = "asked"
    /\ pay.path = "get"
    /\ dd.pc = "done"
    /\ IF dd.status # 200
       THEN pay' = [pay EXCEPT !.pc = "read"]
       ELSE \E r \in PayloadDecrypt(pay.blob, dd.dek) :
               pay' = [pay EXCEPT !.pc = "read", !.dek = dd.dek, !.ok = (r.status = 200), !.data = r.data]
    /\ UNCHANGED <<master_keys, clock, adds, adm, kms_keys, rot, dd, enc, post, user_documents>>

(* ------------------------------- claims -------------------------------- *)

\* the records of the table with status 'active'
ActiveIds(table) == { i \in 1..Len(table) : table[i].status = "active" }

AllIdle == \A a \in Admins : adm[a].pc = "idle"

\* C1: when no add call is under way, none has overlapped another and at
\* least one has inserted its record, exactly one record is active, and it
\* is the record inserted last.
C1_SingleActiveAfterAdds ==
    (AllIdle /\ Len(master_keys) >= 1) => ActiveIds(master_keys) = { Len(master_keys) }

\* C1 witness: two calls have completed; the second record is the active one
C1_Witness ==
    /\ AllIdle
    /\ Len(master_keys) = 2
    /\ master_keys[1].status = "retired"
    /\ master_keys[2].status = "active"

\* C2: once two concurrent add calls have both finished, exactly one record
\* is active.
C2_OneActiveAfterConcurrentAdds ==
    (AllIdle /\ Len(master_keys) >= 1) => Cardinality(ActiveIds(master_keys)) = 1

\* C3: in every state of the table a reader can observe, at most one
\* record is active.
C3_AtMostOneActive == Cardinality(ActiveIds(master_keys)) <= 1

\* a rotation run that read its pair of keys has ended, by the end of its
\* loop or by a throw
RunEnded == rot.pc \in {"done", "failed"} /\ rot.old.bytes # <<>>

\* the key the run took for the new one is the active key, the one it took
\* for the old one is retired
PairStands ==
    /\ \A mk \in getActiveMasterKey(master_keys) : mk.ok /\ mk.keyMaterial = rot.new
    /\ \E i \in 1..Len(master_keys) :
         /\ master_keys[i].status = "retired"
         /\ \A d \in decryptKey(master_keys[i].key_material) : d.ok /\ d.data = rot.old.bytes

\* the row of b is uncorrupted and the vault unwraps it under the run's
\* new key to the DEK recorded in b
Migrated(b) ==
    \A r \in kms_keys :
        (r.user_id = b.user_id /\ ~Corrupted(r.encrypted_dek))
            => UnwrapDek(r.encrypted_dek, rot.new.bytes) = { Ok(b.dek) }

\* C4: after a rotation run has ended, every uncorrupted envelope that
\* unwrapped under the old key before the run unwraps under the new active
\* key to the same DEK.
C4_RotationCorrect ==
    (RunEnded /\ PairStands) => \A b \in rot.before : ~b.corrupt => Migrated(b)

\* C7: after rotation has run again with the same pair of keys, every
\* envelope unwraps under the active key to the DEK it held before the
\* first run, as after one complete run.
C7_RotationIdempotent ==
    (RunEnded /\ rot.again /\ PairStands) => \A b \in rot.before : ~b.corrupt => Migrated(b)

\* C8: when a run met a corrupted row, that row is recorded as failed and
\* every other row it read has been migrated.
C8_RowFailureIsolated ==
    (RunEnded /\ PairStands /\ \E c \in rot.before : c.corrupt)
        => /\ \A c \in rot.before : c.corrupt =>
                \E f \in rot.failed : \E r \in kms_keys : r.user_id = c.user_id /\ f.encrypted_dek = r.encrypted_dek
           /\ \A b \in rot.before : ~b.corrupt => Migrated(b)

\* the owner of the envelope a wrapped DEK belongs to is not `id`
OwnedByOther(text, id) == \E r \in kms_keys : r.encrypted_dek = text /\ r.user_id # id

\* C5: a decrypt-dek request whose token verifies to a subject that is not
\* the owner of the envelope is answered 401 without a DEK.
C5_GateEnforced ==
    (/\ dd.pc = "done"
     /\ Verify(dd.token).status = 200
     /\ Verify(dd.token).id # NoId
     /\ OwnedByOther(dd.encrypted_dek, Verify(dd.token).id))
        => (dd.status = 401 /\ dd.dek = <<>>)

\* C6: the master key is read, and a DEK unwrapped and returned, only in a
\* request for which POST /verify has answered 200 with a subject id; when
\* it has not, the request ends 401 with no DEK.
C6_VerifyBeforeUnwrap ==
    /\ (dd.pc = "unwrap" \/ dd.keyRead \/ dd.dek # <<>> \/ dd.status \in {200, 500})
          => (dd.auth.status = 200 /\ dd.auth.id # NoId)
    /\ (dd.pc = "done" /\ dd.status # 400 /\ ~(dd.auth.status = 200 /\ dd.auth.id # NoId))
          => (dd.status = 401 /\ ~dd.keyRead /\ dd.dek = <<>>)

\* C6 witness: a request passed the verification and was answered with the DEK
C6_Witness ==
    /\ dd.pc = "done"
    /\ dd.status = 200
    /\ dd.keyRead
    /\ dd.auth.status = 200
    /\ Len(dd.dek) = 2 * KeyLen

\* C9: a payload blob that was not changed since it was written decrypts,
\* under the DEK it was encrypted with, to exactly the plaintext that was
\* encrypted: the text GET /api/keys answers is the text of the bytes given
\* to /api/encrypt, and decryptDocument returns the document.
C9_PayloadRoundTrip ==
    (pay.pc = "read" /\ ~Corrupted(pay.blob))
        => /\ pay.ok
           /\ pay.path = "kms" => Utf8Encode(pay.data) = pay.plain
           /\ pay.path = "doc" => pay.value = pay.doc

\* C10: decryption of a payload blob of which one bit of the tag or of the
\* ciphertext was flipped fails; it returns nothing.
C10_TamperDetected ==
    (pay.pc = "read" /\ Corrupted(pay.blob)) => ~pay.ok

\* C11: after an add call whose UPDATE failed to retire the earlier
\* records, the record the call inserted is not in the table, and no two
\* records are active.
C11_AddAllOrNothing ==
    \A a \in Admins :
        (adm[a].pc = "failed" /\ \E i \in 1..Len(master_keys) : master_keys[i].key_id # adm[a].keyId)
            => /\ \A i \in 1..Len(master_keys) : master_keys[i].key_id # adm[a].keyId
               /\ Cardinality(ActiveIds(master_keys)) <= 1

\* C12: in every step, each record of the table stays in it under its key
\* id and with its key material, and a record that is retired stays
\* retired.
C12_AppendOnly ==
    [][\A i \in 1..Len(master_keys) :
          /\ i <= Len(master_keys')
          /\ master_keys'[i].key_id = master_keys[i].key_id
          /\ master_keys'[i].key_material = master_keys[i].key_material
          /\ master_keys[i].status = "retired" => master_keys'[i].status = "retired"]_vars

\* C12 witness: a record retired by the second add is still retired after
\* a third add and a rotation run
C12_Witness ==
    /\ Len(master_keys) = 3
    /\ master_keys[1].status = "retired"
    /\ master_keys[2].status = "retired"
    /\ master_keys[3].status = "active"
    /\ RunEnded

\* the key material that encryptKey wrapped into a stored key_material
WrappedKey(encryptedB64) == OsslUnpad(B64Decode(encryptedB64).pt).data

\* the active record created last, when an active record exists
NewestActive(table) == CHOOSE i \in ActiveIds(table) : \A j \in ActiveIds(table) : j <= i

C14_NoActiveKey ==
    [][ActiveIds(master_keys) = {}
         => /\ getActiveMasterKey(master_keys) = { [ok |-> FALSE, keyId |-> 0, keyMaterial |-> JsBuffer(<<>>)] }
            /\ \A data \in Datas, dek \in Deks, iv \in IVs, iv2 \in IVs :
                  VaultEncrypt(master_keys, B64Encode(Raw(data)), HexEncode(dek), iv, iv2)
                      = { EncryptResponse(500, NoText, NoText) }
            /\ kms_keys' = kms_keys
            /\ (dd.pc = "unwrap" /\ dd'.pc = "done") => (dd'.status = 500 /\ dd'.dek = <<>>)]_vars

\* C14 witness: the two records of two overlapping adds are both retired,
\* and a decrypt-dek request for a stored wrapped DEK was answered 500
C14_Witness ==
    /\ Len(master_keys) = 2
    /\ ActiveIds(master_keys) = {}
    /\ dd.pc = "done"
    /\ dd.keyRead
    /\ dd.status = 500
    /\ \E r \in kms_keys : r.encrypted_dek = dd.encrypted_dek

\* C15: every result of getRetiredMasterKeys lists each retired record
\* once, unwrapped, the record created later before the record created
\* earlier (a key id is the time of its creation).
C15_RetiredNewestFirst ==
    \A res \in getRetiredMasterKeys(master_keys) :
        /\ res.ok
        /\ \A i \in 1..Len(master_keys) :
              master_keys[i].status = "retired"
                  => \E k \in 1..Len(res.list) :
                        /\ res.list[k].keyId = master_keys[i].key_id
                        /\ res.list[k].keyMaterial = JsBuffer(WrappedKey(master_keys[i].key_material))
        /\ \A a, b \in 1..Len(res.list) : a < b => res.list[a].keyId > res.list[b].keyId

\* C16: from the moment a rotation run has read its pair of keys until it
\* ends, no add call is under way and no step changes which records are
\* active.
C16_RotationExcludesAdd ==
    [][rot.pc = "keys"
         => /\ \A a \in Admins : adm[a].pc \in {"idle", "failed"}
            /\ ActiveIds(master_keys') = ActiveIds(master_keys)]_vars

\* the columns of the envelopes that rotation has no business with
Payloads(table) ==
    { [user_id |-> r.user_id, encrypted_key |-> r.encrypted_key, created_at |-> r.created_at] : r \in table }

\* C17: the step in which a rotation run selects and rewrites the rows
\* leaves the owner, the encrypted payload and the creation time of every
\* envelope as they were, and adds or removes no envelope.
C17_RotationFrame ==
    [][(rot.pc = "keys" /\ rot'.pc \in {"done", "failed"})
         => /\ Payloads(kms_keys') = Payloads(kms_keys)
            /\ Cardinality(kms_keys') = Cardinality(kms_keys)]_vars

\* C17 witness: a run has ended over a table of two envelopes, both still
\* holding a payload
C17_Witness ==
    /\ RunEnded
    /\ Cardinality(rot.before) = 2
    /\ Cardinality(kms_keys) = 2
    /\ \A r \in kms_keys : ~IsEmptyText(r.encrypted_key)

\* the master key records under whose key the vault's unwrap of the row's
\* wrappedDEK yields the DEK the row's payload was encrypted with
UnwrapRecords(r) ==
    { i \in 1..Len(master_keys) :
        \E k \in decryptKey(master_keys[i].key_material) :
            k.ok /\ UnwrapDek(r.encrypted_dek, k.data) = { Ok(B64Decode(r.encrypted_key).key) } }

\* C18: every uncorrupted envelope unwraps to its DEK under exactly one
\* master key record, and once a rotation run that read the envelope has
\* ended that record is the active one.
C18_OneWrappingRecord ==
    \A r \in kms_keys :
        ~Corrupted(r.encrypted_dek)
            => /\ Cardinality(UnwrapRecords(r)) = 1
               /\ (RunEnded /\ PairStands /\ \E b \in rot.before : b.user_id = r.user_id)
                     => UnwrapRecords(r) \subseteq ActiveIds(master_keys)

\* C19: a decrypt-dek request of the owner of an unchanged envelope, made
\* with a token that verifies, is answered 200 with the DEK of the envelope
\* also when the record of the key that wraps it has been retired.
C19_HistoricalRetrieval ==
    \A r \in kms_keys :
        (/\ dd.pc = "done"
         /\ dd.auth.status = 200
         /\ dd.auth.id = r.user_id
         /\ dd.encrypted_dek = r.encrypted_dek
         /\ ~Corrupted(r.encrypted_dek)
         /\ \E i \in UnwrapRecords(r) : master_keys[i].status = "retired")
            => (dd.status = 200 /\ dd.dek = HexEncode(B64Decode(r.encrypted_key).key))

\* C20: a decrypt-dek request whose verify call is never answered has been
\* given no DEK and still has a step to take, the one that ends it when
\* the time allowed for the call has run out.
C20_VerifyBounded ==
    dd.pc = "waiting" => (dd.dek = <<>> /\ ~dd.keyRead /\ ENABLED DdStep)

\* C21: a decrypt-dek request that carries a wrapped DEK and either no
\* token or a token that fails verification is answered 401 with no DEK.
C21_UnauthorizedIs401 ==
    (/\ dd.pc = "done"
     /\ ~IsEmptyText(dd.encrypted_dek)
     /\ (dd.token.sig = "missing" \/ Verify(dd.token).status # 200))
        => (dd.status = 401 /\ dd.dek = <<>>)

\* C22: while a master key is active, an /api/encrypt request with an absent
\* data or dek, or with a dek that is not 64 hex digits, is answered 400
\* without the master key having been read, and changes no table.
C22_EncryptValidates ==
    (/\ enc.pc = "done"
     /\ ActiveIds(master_keys) # {}
     /\ \/ IsEmptyText(enc.data)
        \/ Len(enc.dek) # 2 * KeyLen
        \/ \E i \in 1..Len(enc.dek) : enc.dek[i] > 15)
        => (enc.response.status = 400 /\ ~enc.keyRead)

\* the DEK that was wrapped into a blob: its plaintext without OpenSSL's
\* padding and without the padding of pkcs7Pad
WrappedDek(encryptedDekB64) == pkcs7Unpad(OsslUnpad(B64Decode(encryptedDekB64).pt).data)

\* C23: a decrypt-dek request that is answered with a DEK is answered with
\* the 32 bytes that were wrapped into the blob it sent; every other unwrap
\* fails.
C23_UnwrapFailClosed ==
    (dd.pc = "done" /\ dd.status = 200)
        => /\ B64Decode(dd.encrypted_dek).kind = "cbc"
           /\ Len(dd.dek) = 2 * KeyLen
           /\ dd.dek = HexEncode(WrappedDek(dd.encrypted_dek))

\* C24: a rotation run that has ended in overall failure is one that took
\* its pair of keys and then could not read the rows of kms_keys.
C24_OnlyReadFailureFatal ==
    rot.pc = "failed"
        => (rot.old.bytes # <<>> /\ ~SelectKms(kms_keys, RotateColumns).ok)

\* C25: when no add is under way, one rotation run has been started for
\* each add that retired a record and none for the first add, which has
\* returned without an error.
C25_RotationOnRetire ==
    (/\ adm["adm1"].pc \in {"idle", "failed"}
     /\ adm["adm2"].pc = "idle"
     /\ Len(master_keys) >= 1)
        => /\ rot.runs = Len(master_keys) - 1
           /\ adds = 1 => adm["adm1"].pc = "idle"

\* C26: the step in which a rotation run goes over the rows leaves every
\* row that already unwraps to its DEK under the run's new key as it is,
\* does not record it as failed, and goes on to the end of the rows.
C26_MigratedRowSkipped ==
    [][(rot.pc = "keys" /\ rot'.pc \in {"done", "failed"})
         => \A r \in kms_keys :
              UnwrapDek(r.encrypted_dek, rot.new.bytes) = { Ok(B64Decode(r.encrypted_key).key) }
                  => /\ r \in kms_keys'
                     /\ \A f \in rot'.failed : f.encrypted_dek # r.encrypted_dek
                     /\ rot'.pc = "done"]_vars

\* C27: a POST /api/keys request leaves every envelope that is already
\* persisted as it is, and one that repeats a failed store of a user who
\* had no envelope, made when a master key is active and the authorization
\* service answers, is answered 200.
C27_StoreRetrySafe ==
    [][post' # post
         => /\ \A r \in kms_keys : r \in kms_keys'
            /\ (post'.retry /\ post'.authUp /\ ActiveIds(master_keys) # {}) => post'.status = 200]_vars

\* C28: every step of a GET /api/keys request and of the decrypt-dek
\* request it makes leaves the master key table and the envelopes as they
\* are.
C28_RetrieveReadOnly ==
    [][(pay' # pay \/ dd' # dd) => (master_keys' = master_keys /\ kms_keys' = kms_keys)]_vars

\* C28 witness: a retrieval has returned the secret "s" of an envelope,
\* which is still in the table
C28_Witness ==
    /\ pay.pc = "read"
    /\ pay.path = "get"
    /\ pay.ok
    /\ Utf8Encode(pay.data) = <<115>>
    /\ dd.status = 200
    /\ \E r \in kms_keys : r.encrypted_key = pay.blob /\ r.encrypted_dek = dd.encrypted_dek

\* C29: listMasterKeys returns one row for every master key record, each
\* made of the key id, the creation time and the status of that record and
\* of nothing else.
C29_ListMetadataOnly ==
    \A res \in listMasterKeys(master_keys) :
        /\ Len(res) = Len(master_keys)
        /\ \A i \in 1..Len(master_keys) :
             \E j \in 1..Len(res) :
                /\ res[j].key_id = master_keys[i].key_id
                /\ res[j].created_at = master_keys[i].created_at
                /\ res[j].status = master_keys[i].status
        /\ \A j \in 1..Len(res) : DOMAIN res[j] = {"key_id", "created_at", "status"}

\* C29 witness: three records are listed, the active one first
C29_Witness ==
    /\ AllIdle
    /\ Len(master_keys) = 3
    /\ \E res \in listMasterKeys(master_keys) :
         /\ Len(res) = 3
         /\ res[1].status = "active"
         /\ res[1].key_id = master_keys[3].key_id
         /\ res[3].key_id = master_keys[1].key_id
         /\ res[3].status = "retired"

\* C30: the step in which an add call runs its INSERT adds one record, under
\* a key id that no record of the table had, and the call goes on.
C30_FreshKeyId ==
    [][\A a \in Admins :
          (adm[a].pc = "started" /\ adm'[a].pc # "started")
              => /\ \A i \in 1..Len(master_keys) : master_keys[i].key_id # adm[a].keyId
                 /\ Len(master_keys') = Len(master_keys) + 1
                 /\ master_keys'[Len(master_keys')].key_id = adm[a].keyId
                 /\ adm'[a].pc = "inserted"]_vars

\* the retired record that was inserted last
NewestRetired(table) ==
    CHOOSE i \in 1..Len(table) :
        /\ table[i].status = "retired"
        /\ \A j \in 1..Len(table) : table[j].status = "retired" => j <= i

\* C31: the old key a rotation run takes at its key reads is the key of the
\* retired record that was inserted last.
C31_OldKeyIsNewestRetired ==
    [][(rot.pc # "keys" /\ rot'.pc = "keys")
         => rot'.old = JsBuffer(WrappedKey(master_keys[NewestRetired(master_keys)].key_material))]_vars

\* the master keys as getActiveMasterKey and getRetiredMasterKeys return them
ReturnedKeys ==
    { mk.keyMaterial : mk \in { a \in getActiveMasterKey(master_keys) : a.ok } }
    \cup UNION { { res.list[k].keyMaterial : k \in 1..Len(res.list) } :
                 res \in { g \in getRetiredMasterKeys(master_keys) : g.ok } }

\* C32: under every master key the key manager returns, what rotation's
\* encryptDek wraps the vault's decrypt-dek unwraps to the same DEK, and
\* every stored blob that the vault's /api/encrypt wrapped under that key
\* rotation's decryptDek unwraps to the DEK of its envelope.
C32_SameWrapping ==
    \A K \in ReturnedKeys :
        /\ \A d \in Deks, iv \in IVs :
             /\ encryptDek(d, K, iv).ok
             /\ UnwrapDek(encryptDek(d, K, iv).text, K.bytes) = { Ok(d) }
        /\ \A r \in kms_keys :
             (~Corrupted(r.encrypted_dek) /\ B64Decode(r.encrypted_dek).key = K.bytes)
                 => decryptDek(r.encrypted_dek, K) = { Ok(B64Decode(r.encrypted_key).key) }

\* C33: after a rotation run has ended without a row recorded as failed,
\* while the key it took for the new one is the active key, every
\* uncorrupted envelope unwraps to its DEK under the active record and
\* under no retired one.
C33_NoneLeftUnderRetired ==
    (RunEnded /\ rot.failed = {} /\ PairStands)
        => \A r \in kms_keys :
              ~Corrupted(r.encrypted_dek)
                  => /\ UnwrapRecords(r) # {}
                     /\ \A i \in UnwrapRecords(r) : master_keys[i].status = "active"

\* C34: the step in which a rotation run goes over the rows, when both
\* tables hold rows, rewrites the
\* wrappedDEK of every document row and of every envelope that was wrapped
\* under the run's old key, so that it unwraps to the row's own DEK under
\* the run's new key, and leaves the rest of each row as it was.
C34_EveryWrappedDekVisited ==
    [][(rot.pc = "keys" /\ rot'.pc \in {"done", "failed"} /\ user_documents # {} /\ kms_keys # {})
         => /\ \A d \in user_documents :
                 B64Decode(d.encrypted_dek).key = rot.old.bytes
                     => \E e \in user_documents' :
                           /\ e.id = d.id
                           /\ e.user_id = d.user_id
                           /\ e.encrypted_data = d.encrypted_data
                           /\ UnwrapDek(e.encrypted_dek, rot.new.bytes) = { Ok(B64Decode(d.encrypted_data).key) }
            /\ \A r \in kms_keys :
                 B64Decode(r.encrypted_dek).key = rot.old.bytes
                     => \E q \in kms_keys' :
                           /\ q.user_id = r.user_id
                           /\ q.encrypted_key = r.encrypted_key
                           /\ UnwrapDek(q.encrypted_dek, rot.new.bytes) = { Ok(B64Decode(r.encrypted_key).key) }]_vars

\* C35: a GET /api/keys request that was answered with a plaintext carried
\* a token that verifies to a subject, and the payload it deciphered is
\* that of an envelope of this subject and of no other user.
C35_OwnPayloadOnly ==
    (pay.path = "get" /\ pay.pc = "read" /\ pay.ok)
        => /\ Verify(dd.token).status = 200
           /\ Verify(dd.token).id # NoId
           /\ \E r \in kms_keys : r.encrypted_key = pay.blob
           /\ \A r \in kms_keys : r.encrypted_key = pay.blob => r.user_id = Verify(dd.token).id

\* C35 witness: both users have an envelope, and user-42 has been answered
\* with a plaintext deciphered from the payload of its own
C35_Witness ==
    /\ pay.path = "get"
    /\ pay.pc = "read"
    /\ pay.ok
    /\ dd.token = Issue("user-42")
    /\ \E r \in kms_keys : r.user_id = "user-7"
    /\ \E r \in kms_keys : r.user_id = "user-42" /\ r.encrypted_key = pay.blob

\* C36: after every POST /api/keys request no two envelopes have one owner;
\* a request for a user who has an envelope changes no envelope and is
\* answered 500 without an access token; and a request answered with an
\* access token is answered with the token of its own user_id, whose
\* envelope it has inserted.
C36_OneEnvelopePerOwner ==
    [][post' # post
         => /\ \A r, q \in kms_keys' : r.user_id = q.user_id => r = q
            /\ ~post'.fresh
                  => (kms_keys' = kms_keys /\ post'.status = 500 /\ post'.access_token = NoToken)
            /\ post'.access_token # NoToken
                  => /\ post'.status = 200
                     /\ post'.access_token = Issue(post'.user_id)
                     /\ \E r \in kms_keys' \ kms_keys : r.user_id = post'.user_id]_vars

\* C36 witness: with a master key active and the authorization service
\* answering, a store for a user who has an envelope was answered 500, and
\* the other user's store was answered with a token before
C36_Witness ==
    /\ post.user_id = "user-7"
    /\ ~post.fresh
    /\ post.authUp
    /\ post.status = 500
    /\ ActiveIds(master_keys) # {}
    /\ Cardinality({ r \in kms_keys : r.user_id = "user-7" }) = 1
    /\ \E r \in kms_keys : r.user_id = "user-42"

\* the master key store under two administrators
NextKeys ==
    \/ Tick
    \/ \E a \in Admins : AddStart(a)
    \/ \E a \in Admins : AddInsert(a)
    \/ \E a \in Admins : AddRetire(a)

\* two administrators, a call starting only when no other call is under
\* way, and the key server storing secrets meanwhile
NextSeq ==
    \/ Tick
    \/ \E a \in Admins : (\A b \in Admins : adm[b].pc = "idle") /\ AddStart(a)
    \/ \E a \in Admins : AddInsert(a)
    \/ \E a \in Admins : AddRetire(a)
    \/ \E u \in Users, data \in Datas : StoreKey(u, data)

\* one administrator, the key server's store (and the faults of its
\* table) and the rotation script
NextRotate ==
    \/ Tick
    \/ AddStart("adm1")
    \/ AddInsert("adm1")
    \/ AddRetire("adm1")
    \/ \E u \in Users, data \in Datas : StoreKey(u, data)
    \/ \E u \in Users : CorruptDek(u)
    \/ RotateStart
    \/ RotateRun

\* one administrator, the key server's store and the vault's decrypt-dek
NextGate ==
    \/ Tick
    \/ AddStart("adm1")
    \/ AddInsert("adm1")
    \/ AddRetire("adm1")
    \/ \E u \in Users, data \in Datas : StoreKey(u, data)
    \/ \E token \in Tokens, blob \in RequestBlobs : DdReceive(token, blob)
    \/ DdVerify
    \/ DdUnwrap

\* one administrator whose UPDATE may fail, and the key server storing
\* secrets meanwhile
NextAddFail ==
    \/ Tick
    \/ AddStart("adm1")
    \/ AddInsert("adm1")
    \/ AddRetire("adm1")
    \/ AddRetireFails("adm1")
    \/ \E u \in Users, data \in Datas : StoreKey(u, data)

\* two administrators, the key server's store for one user and the vault's
\* decrypt-dek for the token issued to that user
NextNoKey ==
    \/ Tick
    \/ \E a \in Admins : AddStart(a)
    \/ \E a \in Admins : AddInsert(a)
    \/ \E a \in Admins : AddRetire(a)
    \/ \E data \in Datas : StoreKey("user-7", data)
    \/ \E blob \in RequestBlobs : DdReceive(Issue("user-7"), blob)
    \/ DdVerify
    \/ DdUnwrap

\* the payload cipher of the vault and the key server, and the document
\* cipher
NextCipher ==
    \/ \E plain \in Plains, dek \in Deks : PayEncrypt(plain, dek)
    \/ \E doc \in Docs, dek \in Deks : DocEncrypt(doc, dek)
    \/ \E last \in BOOLEAN, bit \in TamperBits : PayTamper(last, bit)
    \/ PayDecrypt
    \/ DocDecrypt

\* one administrator, one user, and decrypt-dek requests whose verify call
\* may be left unanswered
NextHang ==
    \/ Tick
    \/ AddStart("adm1")
    \/ AddInsert("adm1")
    \/ AddRetire("adm1")
    \/ \E data \in Datas : StoreKey("user-7", data)
    \/ \E token \in Tokens, blob \in RequestBlobs : DdReceive(token, blob)
    \/ DdVerify
    \/ DdVerifyHangs
    \/ DdUnwrap

\* one administrator and /api/encrypt requests of every shape
NextEncrypt ==
    \/ Tick
    \/ AddStart("adm1")
    \/ AddInsert("adm1")
    \/ AddRetire("adm1")
    \/ \E base64Data \in EncDatas, dek \in EncDeks : EncReceive(base64Data, dek)
    \/ EncCrypto

\* one administrator whose addMasterKey rotates, and the key server
NextAddRotate ==
    \/ Tick
    \/ AddStart("adm1")
    \/ AddInsert("adm1")
    \/ AddRetireThenRotate("adm1")
    \/ AddRotateStart("adm1")
    \/ RotateRun
    \/ AddRotateEnd("adm1")
    \/ \E u \in Users, data \in Datas : StoreKey(u, data)

\* one administrator, and store requests to the key server while the
\* authorization service is up or down
NextStore ==
    \/ Tick
    \/ AddStart("adm1")
    \/ AddInsert("adm1")
    \/ AddRetire("adm1")
    \/ \E u \in Users, data \in Datas, authUp \in BOOLEAN : PostKeys(u, data, authUp)

\* one administrator, the key server's store and retrievals through the
\* vault's decrypt-dek
NextRetrieve ==
    \/ Tick
    \/ AddStart("adm1")
    \/ AddInsert("adm1")
    \/ AddRetire("adm1")
    \/ \E u \in Users, data \in Datas : StoreKey(u, data)
    \/ \E token \in Tokens, reachable \in BOOLEAN : GetStart(token, reachable)
    \/ DdVerify
    \/ DdUnwrap
    \/ GetFinish

\* one administrator, the key server storing for one user and the document
\* manager storing the document {"id": "7"} for another, and the rotation
\* script
NextDocRotate ==
    \/ Tick
    \/ AddStart("adm1")
    \/ AddInsert("adm1")
    \/ AddRetire("adm1")
    \/ \E data \in Datas : StoreKey("user-7", data)
    \/ StoreDocument("user-42", JsObj(<<105, 100>>, <<55>>))
    \/ RotateStart
    \/ RotateRun

Next == NextKeys \/ NextRotate \/ NextGate \/ NextCipher \/ NextAddFail \/ NextNoKey \/ NextHang \/ NextEncrypt \/ NextAddRotate \/ NextStore \/ NextRetrieve \/ NextDocRotate

Spec == Init /\ [][Next]_vars
SpecKeys == Init /\ [][NextKeys]_vars
SpecSeq == Init /\ [][NextSeq]_vars
SpecRotate == Init /\ [][NextRotate]_vars
SpecGate == Init /\ [][NextGate]_vars
SpecCipher == InitCipher /\ [][NextCipher]_vars
SpecAddFail == Init /\ [][NextAddFail]_vars
SpecNoKey == Init /\ [][NextNoKey]_vars
SpecHang == Init /\ [][NextHang]_vars
SpecEncrypt == Init /\ [][NextEncrypt]_vars
SpecAddRotate == Init /\ [][NextAddRotate]_vars
SpecStore == Init /\ [][NextStore]_vars
SpecRetrieve == Init /\ [][NextRetrieve]_vars
SpecDocRotate == Init /\ [][NextDocRotate]_vars
====
